---- MODULE Spec2Model ----
(***************************************************************************)
(* Model of the ftg-proxy backend: the three Express route handlers        *)
(* (redemption-code lookup, order ingestion, generic field query), the     *)
(* Airtable client functions they call and the shared in-memory cache.     *)
(* Every handler is cut at its awaits: one action per synchronous stretch  *)
(* of handler code, one action per remote (Airtable) operation.            *)
(* JavaScript strings are TLA+ strings; JavaScript values that can have    *)
(* several types (request bodies, cache values, response bodies) are       *)
(* tagged records.                                                         *)
(***************************************************************************)
EXTENDS Integers, Sequences, FiniteSets, TLC

(***************************************************************************)
(* Bounds of the model.                                                    *)
(***************************************************************************)
\* number of requests that can be in flight at the same time
MaxInFlight == 2
\* number of requests served in one behaviour of the whole system
MaxRequests == 2
\* number of requests served in one behaviour of the single-code system
MaxRaceRequests == 4

(***************************************************************************)
(* JavaScript values.                                                      *)
(***************************************************************************)
JUndef == [t |-> "undefined"]
JNull == [t |-> "null"]
JBool(b) == [t |-> "boolean", b |-> b]
JStr(s) == [t |-> "string", s |-> s]
JArr(a) == [t |-> "array", a |-> a]
JObj(f) == [t |-> "object", o |-> f]

\* ToBoolean: undefined, null, false and "" are falsy, objects and arrays truthy
Truthy(v) ==
  CASE v.t = "undefined" -> FALSE
    [] v.t = "null" -> FALSE
    [] v.t = "boolean" -> v.b
    [] v.t = "string" -> v.s # ""
    [] OTHER -> TRUE

IsArray(v) == v.t = "array"

\* v.name for a value that is not null or undefined (those throw a TypeError,
\* which the callers test with Throws before they read the property)
Prop(v, name) ==
  IF v.t = "object" /\ name \in DOMAIN v.o THEN v.o[name] ELSE JUndef

Throws(v) == v.t \in {"undefined", "null"}

(***************************************************************************)
(* String functions of the JavaScript runtime, computed per character.     *)
(***************************************************************************)
UpperChars == "ABCDEFGHIJKLMNOPQRSTUVWXYZ"
LowerChars == "abcdefghijklmnopqrstuvwxyz"
DigitChars == "0123456789"

Char(s, i) == SubSeq(s, i, i)

InChars(ch, chars) == \E i \in 1..Len(chars) : Char(chars, i) = ch

LowerChar(ch) ==
  IF InChars(ch, UpperChars)
    THEN Char(LowerChars, CHOOSE i \in 1..Len(UpperChars) : Char(UpperChars, i) = ch)
    ELSE ch

RECURSIVE toLowerCase(_)
toLowerCase(s) ==
  IF s = "" THEN "" ELSE LowerChar(Head(s)) \o toLowerCase(Tail(s))

RECURSIVE trimStart(_)
trimStart(s) ==
  IF s # "" /\ Head(s) = " " THEN trimStart(Tail(s)) ELSE s

RECURSIVE trimEnd(_)
trimEnd(s) ==
  IF s # "" /\ Char(s, Len(s)) = " " THEN trimEnd(SubSeq(s, 1, Len(s) - 1)) ELSE s

trim(s) == trimEnd(trimStart(s))

\* s.replace(/"/g, '\\"')
RECURSIVE replaceQuotes(_)
replaceQuotes(s) ==
  IF s = "" THEN ""
  ELSE (IF Head(s) = "\"" THEN "\\\"" ELSE Head(s)) \o replaceQuotes(Tail(s))

\* hay.includes(needle)
Includes(hay, needle) ==
  \E i \in 1..(Len(hay) - Len(needle) + 1) :
     SubSeq(hay, i, i + Len(needle) - 1) = needle

IsAlnum(ch) ==
  InChars(ch, UpperChars) \/ InChars(ch, LowerChars) \/ InChars(ch, DigitChars)

\* /^[A-Za-z0-9 _-]+$/
SafeNamePattern(s) ==
  /\ Len(s) >= 1
  /\ \A i \in 1..Len(s) : IsAlnum(Char(s, i)) \/ InChars(Char(s, i), " _-")

\* /^<prefix>[a-zA-Z0-9]{14}$/ for a three-letter prefix
IdPattern(prefix, s) ==
  /\ Len(s) = 17
  /\ SubSeq(s, 1, 3) = prefix
  /\ \A i \in 4..17 : IsAlnum(Char(s, i))

DigitValue(ch) == (CHOOSE i \in 1..10 : Char(DigitChars, i) = ch) - 1

RECURSIVE LeadingDigits(_)
LeadingDigits(s) ==
  IF s # "" /\ InChars(Head(s), DigitChars)
    THEN Head(s) \o LeadingDigits(Tail(s)) ELSE ""

RECURSIVE DigitsValue(_)
DigitsValue(s) ==
  IF s = "" THEN 0
  ELSE 10 * DigitsValue(SubSeq(s, 1, Len(s) - 1)) + DigitValue(Char(s, Len(s)))

\* parseInt(v, 10): leading blanks, an optional sign, then the leading digits;
\* NaN when there is no digit
NaN == [nan |-> TRUE, n |-> 0]
parseInt(v) ==
  IF v.t # "string" THEN NaN
  ELSE LET s0 == trimStart(v.s)
           neg == s0 # "" /\ Head(s0) = "-"
           s1 == IF s0 # "" /\ Head(s0) \in {"-", "+"} THEN Tail(s0) ELSE s0
           ds == LeadingDigits(s1)
       IN IF ds = "" THEN NaN
          ELSE [nan |-> FALSE, n |-> IF neg THEN 0 - DigitsValue(ds) ELSE DigitsValue(ds)]

(***************************************************************************)
(* The remote tabular store (Airtable): one base with one table.           *)
(***************************************************************************)
\* base id and table id the client is initialised with
base == "appC9GXdjmEmFlNk7"
tableName == "tbl4YQBCXN4f2WREk"

\* the records of the table, in the order the store lists them
RecordOrder == <<"recA", "recB">>

InitialTable ==
  ("recA" :> ( ("Redemption Code" :> "A1")
            @@ ("Establishment Name" :> "")
            @@ ("Official Establishment Name" :> "Inn")
            @@ ("Establishment Type" :> "Hotel")
            @@ ("Award Level" :> "Five")
            @@ ("Redemption Status" :> "Not Redeemed") ))
  @@
  ("recB" :> ( ("Redemption Code" :> "B2")
            @@ ("Establishment Name" :> "Spa")
            @@ ("Establishment Type" :> "Day Spa")
            @@ ("Redemption Status" :> "Not Redeemed") ))

\* message of the error a failed Airtable call rejects with
TransportError == "connect ETIMEDOUT"
NotFoundError == "Could not find what you are looking for"
InvalidRequestError == "Invalid request: parameter validation failed"

Min(a, b) == IF a < b THEN a ELSE b

FirstN(seq, n) == SubSeq(seq, 1, Min(Len(seq), n))

Snapshot(tbl, id) == [id |-> id, fields |-> tbl[id]]

MapIds(tbl, ids) == [i \in 1..Len(ids) |-> Snapshot(tbl, ids[i])]

\* how the store reads a string literal of a formula, s being the text after
\* the opening quote: a backslash takes the next character as it is, the
\* first double quote without one closes the literal
RECURSIVE ScanLiteral(_)
ScanLiteral(s) ==
  IF s = "" THEN [closed |-> FALSE, text |-> "", rest |-> ""]
  ELSE IF Head(s) = "\"" THEN [closed |-> TRUE, text |-> "", rest |-> Tail(s)]
  ELSE IF Head(s) = "\\" /\ Len(s) >= 2
    THEN LET r == ScanLiteral(SubSeq(s, 3, Len(s)))
         IN [r EXCEPT !.text = Char(s, 2) \o @]
  ELSE LET r == ScanLiteral(Tail(s))
       IN [r EXCEPT !.text = Head(s) \o @]

\* the literal of `SEARCH("<text>", LOWER({<field>}))`
SearchLiteral(call) == ScanLiteral(SubSeq(call.formula, Len("SEARCH(\"") + 1, Len(call.formula)))

\* what the store answers to select({filterByFormula, maxRecords}) on the
\* given base and table; the two formula shapes the client builds are
\* `{Redemption Code} = "<code>"` and `SEARCH("<text>", LOWER({<field>}))`
EvalSelect(tbl, call) ==
  IF call.base # base \/ call.table # tableName
    THEN [ok |-> FALSE, error |-> NotFoundError, records |-> <<>>]
  ELSE IF call.maxRecords < 1
    THEN [ok |-> FALSE, error |-> InvalidRequestError, records |-> <<>>]
  ELSE LET Match(id) ==
             IF call.by = "code"
               THEN tbl[id]["Redemption Code"] = call.arg
               ELSE /\ call.field \in DOMAIN tbl[id]
                    /\ Includes(toLowerCase(tbl[id][call.field]), SearchLiteral(call).text)
       IN [ok |-> TRUE, error |-> "",
           records |-> MapIds(tbl, FirstN(SelectSeq(RecordOrder, Match), call.maxRecords))]

\* a code that closes the string literal of the `{Redemption Code} = "..."`
\* formula: the store then evaluates another formula than the equality
\* likewise a text whose literal of the SEARCH formula ends before the text
\* does, or does not end
ClosesLiteral(call) ==
  \/ call.by = "code" /\ Includes(call.arg, "\"")
  \/ /\ call.by = "search"
     /\ \/ ~SearchLiteral(call).closed
        \/ SearchLiteral(call).rest # ", LOWER({" \o call.field \o "}))"

\* the answers the store can give to a select; a formula whose literal the
\* input closed can be malformed, match no record or match any record
SelectResults(tbl, call) ==
  IF ClosesLiteral(call)
    THEN {[ok |-> FALSE, error |-> InvalidRequestError, records |-> <<>>],
          [ok |-> TRUE, error |-> "", records |-> <<>>]}
         \cup {[ok |-> TRUE, error |-> "", records |-> MapIds(tbl, <<id>>)] :
                 id \in DOMAIN tbl}
    ELSE {EvalSelect(tbl, call)}

\* record.get(name) of the Airtable SDK
RecGet(rec, name) ==
  IF name \in DOMAIN rec.fields THEN JStr(rec.fields[name]) ELSE JUndef

(***************************************************************************)
(* utils/airtable.js: the calls the client functions issue.                *)
(***************************************************************************)
NoCall == [op |-> "none", base |-> "", table |-> "", formula |-> "", by |-> "",
           field |-> "", arg |-> "", maxRecords |-> 0, id |-> ""]

\* base(tableName).select({filterByFormula: `{Redemption Code} = "${code}"`,
\* maxRecords: 1}).firstPage(), issued by getAirtableRecord and by
\* updateRedemptionStatusInAirtable
SelectByCode(redemptionCode) ==
  [NoCall EXCEPT !.op = "select", !.base = base, !.table = tableName,
                 !.formula = "{Redemption Code} = \"" \o redemptionCode \o "\"",
                 !.by = "code", !.arg = redemptionCode, !.maxRecords = 1]

getAirtableRecord(redemptionCode) == SelectByCode(redemptionCode)

\* base(tableName).update(id, {"Redemption Status": "Already Redeemed"})
UpdateStatus(id) ==
  [NoCall EXCEPT !.op = "update", !.base = base, !.table = tableName, !.id = id]

(***************************************************************************)
(* utils/cache.js (NodeCache): a key-value store with expiry.  Next to the *)
(* value an entry records, for the properties only, the request that wrote *)
(* it.                                                                     *)
(***************************************************************************)
NoWriter == [kind |-> "none", input |-> JUndef]

CacheGet(c, key) == IF key \in DOMAIN c THEN c[key].value ELSE JUndef

\* CacheSet with a slip: an entry that exists is kept
CacheSet_KeepsFirst(c, key, value, writer) ==
  [k \in DOMAIN c \cup {key} |->
     IF k \in DOMAIN c THEN c[k] ELSE [value |-> value, by |-> writer]]

CacheSet(c, key, value, writer) ==
  [k \in DOMAIN c \cup {key} |->
     IF k = key THEN [value |-> value, by |-> writer] ELSE c[k]]

CacheDel(c, key) == [k \in DOMAIN c \ {key} |-> c[k]]

WriterOf(c, key) == IF key \in DOMAIN c THEN c[key].by ELSE NoWriter

(***************************************************************************)
(* State.                                                                  *)
(***************************************************************************)
VARIABLES
  table,    \* the remote table: record id -> field name -> value
  cache,    \* the shared cache: key -> entry
  req,      \* the requests in flight and their responses, per slot
  left,     \* number of requests the clients may still send
  fetched   \* history: per code, the bodies of the lookups answered 200 from
            \* the store since the code's entry last expired and since the
            \* last step of an ingestion of the code

vars == <<table, cache, req, left, fetched>>

Slots == 1..MaxInFlight

NoResult == [ok |-> TRUE, error |-> "", records |-> <<>>]
NoRes == [status |-> 0, body |-> JUndef, hit |-> FALSE]

\* a request: its input, the handler's locals, the pending remote call and
\* its result, the response, and a log of what the handler did
NoReq ==
  [kind |-> "none", pc |-> "idle", at |-> "",
   input |-> JUndef,
   redemptionCodes |-> <<>>, idx |-> 0,
   normalizedField |-> JUndef, cacheKey |-> "",
   call |-> NoCall, result |-> NoResult,
   res |-> NoRes,
   calls |-> <<>>,      \* remote calls issued, in order
   marked |-> <<>>,     \* codes updateRedemptionStatusInAirtable was called with
   succeeded |-> <<>>,  \* codes for which it returned
   gets |-> <<>>,       \* cache keys read
   sets |-> <<>>,       \* cache keys written
   from |-> NoWriter,   \* writer of the cache entry the response was read from
   joined |-> FALSE,    \* a lookup of the same code was in flight at the start
   prior |-> {}]        \* value of fetched for the code at a lookup's cache hit

Free(s) == req[s].pc \in {"idle", "done"}

Writer(r) == [kind |-> r.kind, input |-> r.input]

\* res.status(status).json(body)
Respond(r, status, body) ==
  [r EXCEPT !.pc = "done", !.res = [status |-> status, body |-> body, hit |-> FALSE]]

\* res.json(value read from the cache)
RespondHit(r, body, key) ==
  [r EXCEPT !.pc = "done", !.res = [status |-> 200, body |-> body, hit |-> TRUE],
            !.from = WriterOf(cache, key)]

\* await of a remote call; the handler continues at `at` when it resolves
Await(r, call, at) ==
  [r EXCEPT !.pc = "calling", !.at = at, !.call = call,
            !.calls = Append(@, call)]

FetchedOf(code) == IF code \in DOMAIN fetched THEN fetched[code] ELSE {}

Remember(code, body) ==
  [c \in DOMAIN fetched \cup {code} |->
     IF c = code THEN FetchedOf(code) \cup {body} ELSE fetched[c]]

Forget(codes) ==
  [c \in DOMAIN fetched |-> IF c \in codes THEN {} ELSE fetched[c]]

Range(seq) == {seq[i] : i \in 1..Len(seq)}

\* the history forgets the codes of an ingestion at each of its steps
ForgetIfIngest(r) ==
  IF r.kind = "ingest" THEN Forget(Range(r.redemptionCodes)) ELSE fetched

Init ==
  /\ table = InitialTable
  /\ cache = <<>>
  /\ req = [s \in Slots |-> NoReq]
  /\ left = MaxRequests
  /\ fetched = <<>>

(***************************************************************************)
(* The remote store serves a pending call.                                 *)
(***************************************************************************)
RemoteSelect(s) ==
  /\ req[s].pc = "calling"
  /\ req[s].call.op = "select"
  /\ \E result \in SelectResults(table, req[s].call) :
       req' = [req EXCEPT ![s].pc = "resolved", ![s].result = result]
  /\ fetched' = ForgetIfIngest(req[s])
  /\ UNCHANGED <<table, cache, left>>

RemoteUpdate(s) ==
  /\ req[s].pc = "calling"
  /\ req[s].call.op = "update"
  /\ table' = [table EXCEPT ![req[s].call.id]["Redemption Status"] = "Already Redeemed"]
  /\ req' = [req EXCEPT ![s].pc = "resolved", ![s].result = NoResult]
  /\ fetched' = ForgetIfIngest(req[s])
  /\ UNCHANGED <<cache, left>>

\* a transport or authorisation failure: the call rejects, the store is unchanged
RemoteFail(s) ==
  /\ req[s].pc = "calling"
  /\ req' = [req EXCEPT ![s].pc = "resolved",
                        ![s].result = [ok |-> FALSE, error |-> TransportError,
                                       records |-> <<>>]]
  /\ fetched' = ForgetIfIngest(req[s])
  /\ UNCHANGED <<table, cache, left>>

\* the entry under key reaches its time-to-live
Expire(key) ==
  /\ key \in DOMAIN cache
  /\ cache' = CacheDel(cache, key)
  /\ fetched' = Forget({key})
  /\ UNCHANGED <<table, req, left>>

(***************************************************************************)
(* routes/getRedemptionStatus.js: GET /api/redemption-code-status/:code    *)
(***************************************************************************)
\* history: a lookup of the code is between its cache check and its answer
InFlightLookup(redemptionCode) ==
  \E u \in Slots :
    /\ req[u].kind = "lookup"
    /\ req[u].pc \in {"calling", "resolved"}
    /\ req[u].input = JObj("redemptionCode" :> JStr(redemptionCode))

\* first candidate field whose value is not undefined, null or ''
RECURSIVE pickField(_, _)
pickField(rec, names) ==
  IF names = <<>> THEN JUndef
  ELSE LET v == RecGet(rec, Head(names))
       IN IF v.t # "undefined" /\ v.t # "null" /\ v # JStr("") THEN v
          ELSE pickField(rec, Tail(names))

responsePayload(record) ==
  JObj( ("redemptionCode" :> RecGet(record, "Redemption Code"))
     @@ ("establishmentName" :>
           pickField(record, <<"Establishment Name", "Official Establishment Name">>))
     @@ ("establishmentType" :> RecGet(record, "Establishment Type"))
     @@ ("awardLevel" :> RecGet(record, "Award Level"))
     @@ ("redemptionStatus" :> RecGet(record, "Redemption Status")) )

\* the handler up to its await: cache check, then the remote fetch
LookupStart(s, redemptionCode) ==
  /\ Free(s)
  /\ left > 0
  /\ left' = left - 1
  /\ LET cachedStatus == CacheGet(cache, redemptionCode)
         r == [NoReq EXCEPT !.kind = "lookup",
                            !.input = JObj("redemptionCode" :> JStr(redemptionCode)),
                            !.gets = <<redemptionCode>>,
                            !.joined = InFlightLookup(redemptionCode)]
     IN req' = [req EXCEPT ![s] =
                  IF Truthy(cachedStatus)
                    THEN RespondHit([r EXCEPT !.prior = FetchedOf(redemptionCode)],
                                    cachedStatus, redemptionCode)
                    ELSE Await(r, getAirtableRecord(redemptionCode), "fetch")]
  /\ UNCHANGED <<table, cache, fetched>>

\* LookupResume with a slip: the 404 answer is cached as well
LookupResume_CachesMiss(s) ==
  /\ req[s].kind = "lookup"
  /\ req[s].pc = "resolved"
  /\ LET r == req[s]
         redemptionCode == r.input.o["redemptionCode"].s
         records == r.result.records
         notValid == JObj("error" :> JStr("Sorry, this redemption code is not valid"))
     IN IF ~r.result.ok
          THEN /\ req' = [req EXCEPT ![s] =
                   Respond(r, 500, JObj("error" :> JStr("Failed to retrieve redemption code status")))]
               /\ UNCHANGED <<cache, fetched>>
        ELSE IF Len(records) > 0
          THEN /\ cache' = CacheSet(cache, redemptionCode, responsePayload(records[1]), Writer(r))
               /\ req' = [req EXCEPT ![s] =
                   Respond([r EXCEPT !.sets = Append(@, redemptionCode)],
                           200, responsePayload(records[1]))]
               /\ fetched' = Remember(redemptionCode, responsePayload(records[1]))
        ELSE /\ cache' = CacheSet(cache, redemptionCode, notValid, Writer(r))
             /\ req' = [req EXCEPT ![s] =
                   Respond([r EXCEPT !.sets = Append(@, redemptionCode)], 404, notValid)]
             /\ UNCHANGED fetched
  /\ UNCHANGED <<table, left>>

\* the handler after getAirtableRecord settled
LookupResume(s) ==
  /\ req[s].kind = "lookup"
  /\ req[s].pc = "resolved"
  /\ LET r == req[s]
         redemptionCode == r.input.o["redemptionCode"].s
         records == r.result.records
     IN IF ~r.result.ok
          THEN /\ req' = [req EXCEPT ![s] =
                   Respond(r, 500, JObj("error" :> JStr("Failed to retrieve redemption code status")))]
               /\ UNCHANGED <<cache, fetched>>
        ELSE IF Len(records) > 0
          THEN /\ cache' = CacheSet(cache, redemptionCode, responsePayload(records[1]), Writer(r))
               /\ req' = [req EXCEPT ![s] =
                   Respond([r EXCEPT !.sets = Append(@, redemptionCode)],
                           200, responsePayload(records[1]))]
               /\ fetched' = Remember(redemptionCode, responsePayload(records[1]))
        ELSE /\ req' = [req EXCEPT ![s] =
                   Respond(r, 404, JObj("error" :> JStr("Sorry, this redemption code is not valid")))]
             /\ UNCHANGED <<cache, fetched>>
  /\ UNCHANGED <<table, left>>

(***************************************************************************)
(* routes/receiveOrderData.js: POST /api/order-data                        *)
(***************************************************************************)
\* the elements of v[name] when it is a (truthy) array, no element otherwise
ArrayProp(v, name) ==
  IF Truthy(Prop(v, name)) /\ IsArray(Prop(v, name)) THEN Prop(v, name).a ELSE <<>>

RECURSIVE Flatten(_)
Flatten(seqs) ==
  IF seqs = <<>> THEN <<>> ELSE Head(seqs) \o Flatten(Tail(seqs))

\* `${value}`
ToStr(v) ==
  CASE v.t = "string" -> v.s
    [] v.t = "undefined" -> "undefined"
    [] v.t = "null" -> "null"
    [] OTHER -> "[object Object]"

IsCodeAttribute(attribute) == Prop(attribute, "key") = JStr("Redemption Code")

\* attributes.forEach: the values of the attributes keyed 'Redemption Code'
AttributeCodes(attributes) ==
  LET hits == SelectSeq(attributes, IsCodeAttribute)
  IN [i \in 1..Len(hits) |-> ToStr(Prop(hits[i], "value"))]

PersonalizationCodes(personalizations) ==
  Flatten([i \in 1..Len(personalizations) |->
             AttributeCodes(ArrayProp(personalizations[i], "attributes"))])

\* order.line_items.forEach: the codes pushed, in traversal order
ExtractCodes(order) ==
  LET items == Prop(order, "line_items").a
  IN Flatten([i \in 1..Len(items) |->
                PersonalizationCodes(ArrayProp(items[i], "product_personalizations"))])

\* reading a property of a null or undefined element throws a TypeError
AnyThrows(elements) == \E i \in 1..Len(elements) : Throws(elements[i])

ExtractThrows(order) ==
  LET items == Prop(order, "line_items").a
  IN \/ AnyThrows(items)
     \/ \E i \in 1..Len(items) :
          LET ps == ArrayProp(items[i], "product_personalizations")
          IN \/ AnyThrows(ps)
             \/ \E j \in 1..Len(ps) : AnyThrows(ArrayProp(ps[j], "attributes"))

InvalidOrder(order) ==
  \/ ~Truthy(order)
  \/ ~Truthy(Prop(order, "line_items"))
  \/ ~IsArray(Prop(order, "line_items"))

\* NoCodes with a slip: the empty list is let through
NoCodes_Never(redemptionCodes) == FALSE

\* redemptionCodes.length === 0
NoCodes(redemptionCodes) == Len(redemptionCodes) = 0

UpdateFailed == JObj("error" :> JStr("Failed to update redemption statuses"))

\* updateRedemptionStatusInAirtable(code) up to its first await
CallMark(r, redemptionCode) ==
  Await([r EXCEPT !.marked = Append(@, redemptionCode)],
        SelectByCode(redemptionCode), "markSelect")

\* the for-of loop at position r.idx: the update of the next code, or the
\* response once every code is done
LoopStep(r) ==
  IF r.idx <= Len(r.redemptionCodes)
    THEN CallMark(r, r.redemptionCodes[r.idx])
    ELSE Respond(r, 200,
           JObj("message" :> JStr("Redemption statuses updated to \"Already Redeemed\"")))

\* the handler up to its first await: validation, extraction, first update
IngestStart(s, order) ==
  /\ Free(s)
  /\ left > 0
  /\ left' = left - 1
  /\ LET r == [NoReq EXCEPT !.kind = "ingest", !.input = order]
         rr == IF InvalidOrder(order)
                 THEN Respond(r, 400, JObj("error" :> JStr("Invalid order data")))
               ELSE IF ExtractThrows(order)
                 THEN Respond(r, 500, UpdateFailed)
               ELSE IF NoCodes(ExtractCodes(order))
                 THEN Respond(r, 400, JObj("error" :> JStr("No redemption codes found in order items")))
               ELSE LoopStep([r EXCEPT !.redemptionCodes = ExtractCodes(order), !.idx = 1])
     IN /\ req' = [req EXCEPT ![s] = rr]
        /\ fetched' = ForgetIfIngest(rr)
  /\ UNCHANGED <<table, cache>>

\* IngestAfterSelect with a slip: a code without a record is skipped and the
\* loop goes on with the next code
IngestAfterSelect_SkipsMissing(s) ==
  /\ req[s].kind = "ingest"
  /\ req[s].pc = "resolved"
  /\ req[s].at = "markSelect"
  /\ LET r == req[s]
     IN req' = [req EXCEPT ![s] =
          IF ~r.result.ok
            THEN Respond(r, 500, UpdateFailed)
          ELSE IF Len(r.result.records) = 0
            THEN LoopStep([r EXCEPT !.idx = r.idx + 1])
          ELSE Await(r, UpdateStatus(r.result.records[1].id), "markUpdate")]
  /\ fetched' = ForgetIfIngest(req[s])
  /\ UNCHANGED <<table, cache, left>>

\* updateRedemptionStatusInAirtable after its select settled
IngestAfterSelect(s) ==
  /\ req[s].kind = "ingest"
  /\ req[s].pc = "resolved"
  /\ req[s].at = "markSelect"
  /\ LET r == req[s]
     IN req' = [req EXCEPT ![s] =
          IF ~r.result.ok \/ Len(r.result.records) = 0
            THEN Respond(r, 500, UpdateFailed)
            ELSE Await(r, UpdateStatus(r.result.records[1].id), "markUpdate")]
  /\ fetched' = ForgetIfIngest(req[s])
  /\ UNCHANGED <<table, cache, left>>

\* updateRedemptionStatusInAirtable after its update settled, and the rest
\* of the loop body: cache.set, then the next code or the response
IngestAfterUpdate(s) ==
  /\ req[s].kind = "ingest"
  /\ req[s].pc = "resolved"
  /\ req[s].at = "markUpdate"
  /\ LET r == req[s]
         redemptionCode == r.redemptionCodes[r.idx]
     IN IF ~r.result.ok
          THEN /\ req' = [req EXCEPT ![s] = Respond(r, 500, UpdateFailed)]
               /\ cache' = cache
          ELSE /\ cache' = CacheSet(cache, redemptionCode, JStr("Already Redeemed"), Writer(r))
               /\ req' = [req EXCEPT ![s] =
                    LoopStep([r EXCEPT !.succeeded = Append(@, redemptionCode),
                                       !.sets = Append(@, redemptionCode),
                                       !.idx = r.idx + 1])]
  /\ fetched' = ForgetIfIngest(req[s])
  /\ UNCHANGED <<table, left>>

(***************************************************************************)
(* utils/airtable.js: queryAirtableContains up to its await.               *)
(***************************************************************************)
\* value || fallback
OrElse(v, fallback) == IF Truthy(v) THEN v ELSE fallback

\* Math.min(parseInt(options.maxRecords, 10) || 25, 100)
ClampMaxRecords(v) ==
  LET n == parseInt(v)
  IN Min(IF n.nan \/ n.n = 0 THEN 25 ELSE n.n, 100)

\* what the function does before it suspends: it returns at once (blank
\* query), throws (failed validation) or issues the select
queryAirtableContains(field, query, options) ==
  LET cleanQuery == trim(ToStr(OrElse(query, JStr(""))))
      optBase == Prop(options, "base")
      optTable == Prop(options, "table")
      tbl == trim(ToStr(optTable))
      escaped == replaceQuotes(cleanQuery)
      lowered == toLowerCase(escaped)
      formula == "SEARCH(\"" \o lowered \o "\", LOWER({" \o ToStr(field) \o "}))"
      Throw(message) == [outcome |-> "throw", message |-> message, call |-> NoCall]
  IN IF cleanQuery = ""
       THEN [outcome |-> "return", message |-> "", call |-> NoCall]
     ELSE IF ~SafeNamePattern(ToStr(field))
       THEN Throw("Invalid field name")
     ELSE IF Truthy(optBase) /\ ~IdPattern("app", ToStr(optBase))
       THEN Throw("Invalid base identifier")
     ELSE IF Truthy(optTable) /\ ~(IdPattern("tbl", tbl) \/ SafeNamePattern(tbl))
       THEN Throw("Invalid table identifier")
     ELSE [outcome |-> "call", message |-> "",
           call |-> [NoCall EXCEPT
                       !.op = "select",
                       !.base = IF Truthy(optBase) THEN ToStr(optBase) ELSE base,
                       !.table = IF Truthy(optTable) THEN tbl ELSE tableName,
                       !.formula = formula,
                       !.by = "search",
                       !.field = ToStr(field),
                       !.arg = toLowerCase(cleanQuery),
                       !.maxRecords = ClampMaxRecords(Prop(options, "maxRecords"))]]

\* { records: records.map(r => ({ id, createdTime, fields })) }
QueryData(records) ==
  JObj("records" :> JArr([i \in 1..Len(records) |->
         JObj( ("id" :> JStr(records[i].id))
            @@ ("createdTime" :> JStr("2024-01-01T00:00:00.000Z"))
            @@ ("fields" :> JObj([n \in DOMAIN records[i].fields |->
                                    JStr(records[i].fields[n])])) )]))

(***************************************************************************)
(* routes/receiveOrderData.js: GET /api/query                              *)
(***************************************************************************)
ALLOWED_FIELDS ==
  {"Redemption Code", "Establishment Name", "Establishment Type", "Award Level"}

FIELD_ALIASES == ("Official Establishment Name" :> "Establishment Name")

\* FIELD_ALIASES[field] || field
NormalizeField(field) ==
  IF field.t = "string" /\ field.s \in DOMAIN FIELD_ALIASES
    THEN JStr(FIELD_ALIASES[field.s]) ELSE field

\* IsAllowed with a slip: no allow-list
IsAllowed_Any(normalizedField) == TRUE

IsAllowed(normalizedField) ==
  normalizedField.t = "string" /\ normalizedField.s \in ALLOWED_FIELDS

CacheKey(query, normalizedField) ==
  "contains::" \o ToStr(OrElse(Prop(query, "AIRTABLE_BASE_ID"), JStr("defaultBase")))
     \o "::" \o ToStr(OrElse(Prop(query, "AIRTABLE_TABLE"), JStr("defaultTable")))
     \o "::" \o ToStr(normalizedField)
     \o "::" \o toLowerCase(Prop(query, "q").s)
     \o "::" \o ToStr(OrElse(Prop(query, "maxRecords"), JStr("")))

\* WithCached with a slip: the entry is returned as it is stored
WithCached_Unmarked(cached) == cached

\* { ...cached, cached: true }; spreading a string gives its characters
\* under their indexes, kept here under the one name "chars"
WithCached(cached) ==
  IF cached.t = "object"
    THEN JObj(("cached" :> JBool(TRUE)) @@ cached.o)
    ELSE JObj(("cached" :> JBool(TRUE)) @@ ("chars" :> cached))

QueryOptions(query) ==
  JObj( ("maxRecords" :> Prop(query, "maxRecords"))
     @@ ("table" :> Prop(query, "AIRTABLE_TABLE"))
     @@ ("base" :> Prop(query, "AIRTABLE_BASE_ID")) )

\* the handler up to its await: parameter checks, cache check, then
\* queryAirtableContains; a throw of the latter lands in the catch block
QueryStart(s, query) ==
  /\ Free(s)
  /\ left > 0
  /\ left' = left - 1
  /\ LET field == Prop(query, "field")
         q == Prop(query, "q")
         normalizedField == NormalizeField(field)
         r == [NoReq EXCEPT !.kind = "query", !.input = query]
     IN IF ~Truthy(field) \/ ~Truthy(q)
          THEN /\ req' = [req EXCEPT ![s] = Respond(r, 400,
                     JObj("error" :> JStr("Missing required query parameters: field, q")))]
               /\ cache' = cache
        ELSE IF ~IsAllowed(normalizedField)
          THEN /\ req' = [req EXCEPT ![s] = Respond(r, 400,
                     JObj("error" :> JStr("Field not allowed")))]
               /\ cache' = cache
        ELSE LET cacheKey == CacheKey(query, normalizedField)
                 cached == CacheGet(cache, cacheKey)
                 r1 == [r EXCEPT !.normalizedField = normalizedField,
                                 !.cacheKey = cacheKey,
                                 !.gets = <<cacheKey>>]
                 out == queryAirtableContains(normalizedField, q, QueryOptions(query))
             IN IF Truthy(cached)
                  THEN /\ req' = [req EXCEPT ![s] = RespondHit(r1, WithCached(cached), cacheKey)]
                       /\ cache' = cache
                ELSE IF out.outcome = "throw"
                  THEN /\ req' = [req EXCEPT ![s] = Respond(r1, 500,
                             JObj("error" :> OrElse(JStr(out.message),
                                                    JStr("Failed to query Airtable"))))]
                       /\ cache' = cache
                ELSE IF out.outcome = "return"
                  THEN /\ cache' = CacheSet(cache, cacheKey, QueryData(<<>>), Writer(r))
                       /\ req' = [req EXCEPT ![s] =
                            Respond([r1 EXCEPT !.sets = <<cacheKey>>], 200, QueryData(<<>>))]
                ELSE /\ req' = [req EXCEPT ![s] = Await(r1, out.call, "query")]
                     /\ cache' = cache
  /\ UNCHANGED <<table, fetched>>

\* the handler after queryAirtableContains settled
QueryResume(s) ==
  /\ req[s].kind = "query"
  /\ req[s].pc = "resolved"
  /\ LET r == req[s]
         data == QueryData(r.result.records)
     IN IF ~r.result.ok
          THEN /\ req' = [req EXCEPT ![s] = Respond(r, 500,
                     JObj("error" :> OrElse(JStr(r.result.error),
                                            JStr("Failed to query Airtable"))))]
               /\ cache' = cache
        ELSE /\ cache' = CacheSet(cache, r.cacheKey, data, Writer(r))
             /\ req' = [req EXCEPT ![s] =
                  Respond([r EXCEPT !.sets = Append(@, r.cacheKey)], 200, data)]
  /\ UNCHANGED <<table, left, fetched>>

(***************************************************************************)
(* The requests the clients send.                                          *)
(***************************************************************************)
\* most Redemption Code attributes in one order
MaxCodes == 2

Attribute(key, value) == JObj(("key" :> JStr(key)) @@ ("value" :> JStr(value)))

\* one line item with one personalization holding the given attributes
LineItem(attributes) ==
  JObj("product_personalizations" :> JArr(<<JObj("attributes" :> JArr(attributes))>>))

Order(items) == JObj("line_items" :> JArr(items))

IngestCodes == {"A1", "Z9"}

CodeLists == UNION {[1..n -> IngestCodes] : n \in 1..MaxCodes}

\* the codes spread over line items, each item also carrying another attribute
OrderOf(codes) ==
  Order([i \in 1..Len(codes) |->
           LineItem(<<Attribute("Size", "L"), Attribute("Redemption Code", codes[i])>>)])

\* the same codes as attributes of a single personalization
OrderOfOne(codes) ==
  Order(<<LineItem([i \in 1..Len(codes) |-> Attribute("Redemption Code", codes[i])])>>)

Orders ==
  {OrderOf(codes) : codes \in CodeLists}
  \cup {OrderOfOne(codes) : codes \in {c \in CodeLists : Len(c) > 1}}
  \cup { JUndef,
         JObj(<<>>),
         JObj("line_items" :> JStr("none")),
         Order(<<>>),
         Order(<<JNull>>),
         Order(<<JObj(<<>>)>>),
         Order(<<JObj("product_personalizations" :> JArr(<<JObj(<<>>)>>))>>),
         Order(<<LineItem(<<Attribute("Size", "L")>>)>>) }

QueryOf(field, q, maxRecords, tbl, baseId) ==
  JObj( ("field" :> field) @@ ("q" :> q) @@ ("maxRecords" :> maxRecords)
     @@ ("AIRTABLE_TABLE" :> tbl) @@ ("AIRTABLE_BASE_ID" :> baseId) )

FieldInputs == {JStr("Award Level"), JStr("Official Establishment Name"),
                JStr("Social Security Number"), JUndef}
\* plain, with the key separator, blank, with a double quote, with a
\* backslash before a double quote
QInputs == {JStr("Fi"), JStr("fi::"), JStr(" "), JStr("F\"i"), JStr("e\\\"")}
\* absent, not a number, in range, zero, negative, above the cap
MaxRecordsInputs ==
  {JUndef, JStr("::"), JStr("1"), JStr("0"), JStr("-5"), JStr("250")}
TableInputs == {JUndef, JStr("defaultTable"), JStr("tbl4YQBCXN4f2WREk"), JStr("t{1}")}
BaseInputs == {JUndef, JStr("defaultBase"), JStr("appC9GXdjmEmFlNk7")}

\* the plain query, every variation of one of its parameters, and the
\* blank query text with each base
Queries ==
  {QueryOf(f, JStr("Fi"), JUndef, JUndef, JUndef) : f \in FieldInputs}
  \cup {QueryOf(JStr("Award Level"), q, JUndef, JUndef, JUndef) : q \in QInputs}
  \cup {QueryOf(JStr("Award Level"), JStr("Fi"), m, JUndef, JUndef) : m \in MaxRecordsInputs}
  \cup {QueryOf(JStr("Award Level"), JStr("Fi"), JUndef, t, JUndef) : t \in TableInputs}
  \cup {QueryOf(JStr("Award Level"), q, JUndef, JUndef, b) : q \in {JStr("Fi"), JStr(" ")}, b \in BaseInputs}

\* a code of the table, a code that is not in it, a route parameter that
\* spells the cache key of the plain query, and one with double quotes
LookupCodes ==
  {"A1", "Z9", "contains::defaultBase::defaultTable::Award Level::fi::",
   "\" & \"A1"}

CacheKeys == DOMAIN cache

Next ==
  \/ \E s \in Slots : \E c \in LookupCodes : LookupStart(s, c)
  \/ \E s \in Slots : LookupResume(s)
  \/ \E s \in Slots : \E order \in Orders : IngestStart(s, order)
  \/ \E s \in Slots : IngestAfterSelect(s)
  \/ \E s \in Slots : IngestAfterUpdate(s)
  \/ \E s \in Slots : \E query \in Queries : QueryStart(s, query)
  \/ \E s \in Slots : QueryResume(s)
  \/ \E s \in Slots : RemoteSelect(s)
  \/ \E s \in Slots : RemoteUpdate(s)
  \/ \E s \in Slots : RemoteFail(s)
  \/ \E key \in CacheKeys : Expire(key)

Spec == Init /\ [][Next]_vars

(***************************************************************************)
(* The single-code system: lookups and ingestions of one code of the       *)
(* table, more of them in one behaviour.                                   *)
(***************************************************************************)
RaceCode == "A1"

InitRace ==
  /\ table = InitialTable
  /\ cache = <<>>
  /\ req = [s \in Slots |-> NoReq]
  /\ left = MaxRaceRequests
  /\ fetched = <<>>

NextRace ==
  \/ \E s \in Slots : LookupStart(s, RaceCode)
  \/ \E s \in Slots : LookupResume(s)
  \/ \E s \in Slots : IngestStart(s, OrderOf(<<RaceCode>>))
  \/ \E s \in Slots : IngestAfterSelect(s)
  \/ \E s \in Slots : IngestAfterUpdate(s)
  \/ \E s \in Slots : RemoteSelect(s)
  \/ \E s \in Slots : RemoteUpdate(s)
  \/ \E s \in Slots : RemoteFail(s)
  \/ Expire(RaceCode)

SpecRace == InitRace /\ [][NextRace]_vars

(***************************************************************************)
(* unnamed/part_000: the older lookup handler, GET /:redemptionCode, on    *)
(* its own in front of the same store and cache.                           *)
(***************************************************************************)
\* number of requests served in one behaviour of the older handler
MaxLegacyRequests == 3

\* cachedStatus && cachedStatus.status && cachedStatus.status.recordId
LegacyHit(cachedStatus) ==
  /\ Truthy(cachedStatus)
  /\ Truthy(Prop(cachedStatus, "status"))
  /\ Truthy(Prop(Prop(cachedStatus, "status"), "recordId"))

LegacyFields ==
  <<"redemptionCode", "establishmentName", "establishmentType", "awardLevel",
    "redemptionStatus">>

\* the object answered at a hit: the five fields read from the cached value
LegacyHitBody(cachedStatus) ==
  JObj([n \in Range(LegacyFields) |-> Prop(cachedStatus, n)])

\* the object cached and answered after a fetch
LegacyPayload(record) ==
  JObj( ("redemptionCode" :> RecGet(record, "Redemption Code"))
     @@ ("establishmentName" :> RecGet(record, "Official Establishment Name"))
     @@ ("establishmentType" :> RecGet(record, "Establishment Type"))
     @@ ("awardLevel" :> RecGet(record, "Award Level"))
     @@ ("redemptionStatus" :> RecGet(record, "Redemption Status")) )

\* the handler up to its await; prior keeps, for the properties, the bodies
\* answered for the code since its entry was last absent
LegacyLookupStart(s, redemptionCode) ==
  /\ Free(s)
  /\ left > 0
  /\ left' = left - 1
  /\ LET cachedStatus == CacheGet(cache, redemptionCode)
         r == [NoReq EXCEPT !.kind = "legacy",
                            !.input = JObj("redemptionCode" :> JStr(redemptionCode)),
                            !.gets = <<redemptionCode>>,
                            !.prior = FetchedOf(redemptionCode)]
     IN req' = [req EXCEPT ![s] =
                  IF LegacyHit(cachedStatus)
                    THEN RespondHit(r, LegacyHitBody(cachedStatus), redemptionCode)
                    ELSE Await(r, getAirtableRecord(redemptionCode), "fetch")]
  /\ UNCHANGED <<table, cache, fetched>>

\* the handler after getAirtableRecord settled
LegacyLookupResume(s) ==
  /\ req[s].kind = "legacy"
  /\ req[s].pc = "resolved"
  /\ LET r == req[s]
         redemptionCode == r.input.o["redemptionCode"].s
         records == r.result.records
     IN IF ~r.result.ok
          THEN /\ req' = [req EXCEPT ![s] =
                   Respond(r, 500, JObj("error" :> JStr("Failed to retrieve redemption code status")))]
               /\ UNCHANGED <<cache, fetched>>
        ELSE IF Len(records) > 0
          THEN /\ cache' = CacheSet(cache, redemptionCode, LegacyPayload(records[1]), Writer(r))
               /\ req' = [req EXCEPT ![s] =
                   Respond([r EXCEPT !.sets = Append(@, redemptionCode)],
                           200, LegacyPayload(records[1]))]
               /\ fetched' = Remember(redemptionCode, LegacyPayload(records[1]))
        ELSE /\ req' = [req EXCEPT ![s] =
                   Respond(r, 404, JObj("error" :> JStr("Sorry, this redemption code is not valid")))]
             /\ UNCHANGED <<cache, fetched>>
  /\ UNCHANGED <<table, left>>

LegacyCodes == {"A1", "B2", "Z9"}

InitLegacy ==
  /\ table = InitialTable
  /\ cache = <<>>
  /\ req = [s \in Slots |-> NoReq]
  /\ left = MaxLegacyRequests
  /\ fetched = <<>>

NextLegacy ==
  \/ \E s \in Slots : \E c \in LegacyCodes : LegacyLookupStart(s, c)
  \/ \E s \in Slots : LegacyLookupResume(s)
  \/ \E s \in Slots : RemoteSelect(s)
  \/ \E s \in Slots : RemoteFail(s)
  \/ \E key \in CacheKeys : Expire(key)

SpecLegacy == InitLegacy /\ [][NextLegacy]_vars

(***************************************************************************)
(* Properties.                                                             *)
(***************************************************************************)
Lookups == {s \in Slots : req[s].kind = "lookup"}
Ingests == {s \in Slots : req[s].kind = "ingest"}
QueryReqs == {s \in Slots : req[s].kind = "query"}

Done(s) == req[s].pc = "done"

\* the request in slot s was answered 200 from a cache entry
AnsweredFromCache(s) == Done(s) /\ req[s].res.status = 200 /\ req[s].res.hit

\* the request in slot s was answered 200 from a remote fetch
AnsweredFromStore(s) == Done(s) /\ req[s].res.status = 200 /\ ~req[s].res.hit

LookupCode(s) == req[s].input.o["redemptionCode"].s

ShapedFields ==
  {"redemptionCode", "establishmentName", "establishmentType", "awardLevel",
   "redemptionStatus"}

IsShaped(body) == body.t = "object" /\ DOMAIN body.o = ShapedFields

\* C1: every lookup answered 200 from the cache returns what a lookup
\* answered by a remote fetch returns, an object with the fields
\* redemptionCode, establishmentName, establishmentType, awardLevel and
\* redemptionStatus, whichever service wrote the entry
C1_CacheHitIsShaped ==
  \A s \in Lookups : AnsweredFromCache(s) => IsShaped(req[s].res.body)

\* C2: a lookup answered 200 from the cache, with no expiry of the entry and
\* no ingestion of the code since a lookup of the same code was answered 200
\* from the store, returns the body that lookup returned, and calls the
\* store zero times
C2_SecondLookupIdentical ==
  \A s \in Lookups :
    AnsweredFromCache(s) =>
      /\ req[s].calls = <<>>
      /\ \A body \in req[s].prior : req[s].res.body = body

\* the step taken is the handler of slot s answering its request
Answers(s) == req[s].pc = "resolved" /\ req'[s].pc = "done"

\* C3: a lookup whose fetch returns no record answers 404, a lookup whose
\* fetch fails answers 500, and neither step creates or overwrites a cache
\* entry
C3_MissLeavesCache ==
  [][\A s \in Lookups :
       Answers(s) =>
         /\ (req[s].result.ok /\ req[s].result.records = <<>>)
              => (req'[s].res.status = 404 /\ cache' = cache)
         /\ ~req[s].result.ok
              => (req'[s].res.status = 500 /\ cache' = cache)
         /\ req'[s].res.status \in {404, 500} => cache' = cache]_vars

C3_Witness ==
  \E s \in Lookups :
    /\ Done(s) /\ req[s].res.status = 404
    /\ Len(req[s].calls) = 1
    /\ LookupCode(s) \notin DOMAIN cache

IsPrefix(p, seq) == Len(p) <= Len(seq) /\ p = SubSeq(seq, 1, Len(p))

\* the Redemption Status the store holds for every record of the code
Redeemed(code) ==
  /\ \E id \in DOMAIN table : table[id]["Redemption Code"] = code
  /\ \A id \in DOMAIN table :
       table[id]["Redemption Code"] = code
         => table[id]["Redemption Status"] = "Already Redeemed"

C4_State(s) ==
  LET r == req[s]
  IN /\ IsPrefix(r.marked, r.redemptionCodes)
     /\ IsPrefix(r.succeeded, r.marked)
     /\ Len(r.marked) <= Len(r.succeeded) + 1
     /\ r.sets = r.succeeded
     /\ \A code \in Range(r.succeeded) : Redeemed(code)
     /\ r.pc \in {"calling", "resolved"} => Len(r.marked) = Len(r.succeeded) + 1
     /\ (Done(s) /\ r.res.status = 200) => r.succeeded = r.redemptionCodes
     /\ (Done(s) /\ r.res.status = 500 /\ r.marked # <<>>)
          => Len(r.marked) = Len(r.succeeded) + 1

C4_Step(s) ==
  Answers(s) =>
    /\ (~req[s].result.ok \/ (req[s].at = "markSelect" /\ req[s].result.records = <<>>))
         => req'[s].res.status = 500
    /\ req'[s].res.status = 500 => (cache' = cache /\ table' = table)

\* C4: an ingestion updates its codes in order, one at a time; the codes
\* whose cache entry it wrote are at every point the codes whose update has
\* succeeded, and these are redeemed in the store; a failed update ends the
\* request with 500 without a further update and without undoing anything
\* in the store or in the cache
C4_SequentialNoRollback ==
  /\ [](\A s \in Ingests : C4_State(s))
  /\ [][\A s \in Ingests : C4_Step(s)]_vars

C4_Witness ==
  \E s \in Ingests :
    /\ Done(s) /\ req[s].res.status = 500
    /\ req[s].redemptionCodes = <<"A1", "Z9">>
    /\ req[s].marked = <<"A1", "Z9">>
    /\ req[s].sets = <<"A1">>
    /\ Redeemed("A1")
    /\ CacheGet(cache, "A1") = JStr("Already Redeemed")

NoLineItemsArray(order) ==
  \/ order.t # "object"
  \/ "line_items" \notin DOMAIN order.o
  \/ order.o["line_items"].t # "array"

\* the traversal of the order runs to its end and finds no code
ZeroCodes(order) ==
  /\ ~NoLineItemsArray(order)
  /\ ~ExtractThrows(order)
  /\ Len(ExtractCodes(order)) = 0

\* C5: an ingestion whose payload has no line_items array, or whose
\* traversal finds no redemption code, answers 400 without an update, a
\* remote call or a cache write
C5_EmptyOrderRejected ==
  \A s \in Ingests :
    (NoLineItemsArray(req[s].input) \/ ZeroCodes(req[s].input)) =>
      /\ Done(s) /\ req[s].res.status = 400
      /\ req[s].marked = <<>> /\ req[s].calls = <<>> /\ req[s].sets = <<>>

C5_Witness ==
  \E s \in Ingests :
    Done(s) /\ req[s].input = Order(<<>>) /\ req[s].res.status = 400

Count(seq, x) == Cardinality({i \in 1..Len(seq) : seq[i] = x})

\* C6: an ingestion that ends 200 has called the update exactly once for
\* each distinct value of a Redemption Code attribute of the order, and for
\* no other code
C6_OncePerDistinctCode ==
  \A s \in Ingests :
    (Done(s) /\ req[s].res.status = 200) =>
      /\ Range(req[s].marked) = Range(ExtractCodes(req[s].input))
      /\ \A code \in Range(req[s].marked) : Count(req[s].marked, code) = 1

\* the field of the request mapped through the alias table
Resolved(query) ==
  LET field == Prop(query, "field")
  IN IF field.t # "string" THEN ""
     ELSE IF field.s \in DOMAIN FIELD_ALIASES THEN FIELD_ALIASES[field.s]
     ELSE field.s

\* C7: a query whose field, mapped through the alias table, is not on the
\* allow-list answers 400 without a remote call and without a cache read or
\* write; every remote search is issued with the mapped field, which is on
\* the allow-list
C7_FieldAllowListed ==
  \A s \in QueryReqs :
    /\ Resolved(req[s].input) \notin ALLOWED_FIELDS =>
         /\ Done(s) /\ req[s].res.status = 400
         /\ req[s].calls = <<>> /\ req[s].gets = <<>> /\ req[s].sets = <<>>
    /\ \A i \in 1..Len(req[s].calls) :
         /\ req[s].calls[i].by = "search"
         /\ req[s].calls[i].field \in ALLOWED_FIELDS
         /\ req[s].calls[i].field = Resolved(req[s].input)

C7_Witness ==
  \E s, u \in QueryReqs :
    /\ Done(s) /\ req[s].res.status = 400
    /\ Prop(req[s].input, "field") = JStr("Social Security Number")
    /\ Prop(req[u].input, "field") = JStr("Official Establishment Name")
    /\ Len(req[u].calls) = 1

\* the parameters that determine the remote query of a request
KeyParams(query) ==
  [base |-> ToStr(OrElse(Prop(query, "AIRTABLE_BASE_ID"), JStr(base))),
   table |-> trim(ToStr(OrElse(Prop(query, "AIRTABLE_TABLE"), JStr(tableName)))),
   field |-> Resolved(query),
   text |-> toLowerCase(ToStr(Prop(query, "q"))),
   maxRecords |-> ToStr(OrElse(Prop(query, "maxRecords"), JStr("")))]

\* C8: a query answered from the cache is answered from an entry written by
\* a query with the same effective base, effective table, resolved field,
\* lower-cased text and max-records value
C8_KeyInjective ==
  \A s \in QueryReqs :
    (AnsweredFromCache(s) /\ req[s].from.kind = "query") =>
      KeyParams(req[s].from.input) = KeyParams(req[s].input)

\* C9: a lookup is never answered from an entry the query service wrote,
\* and a query never from an entry lookup or ingestion wrote
C9_NoCrossServiceHit ==
  \A s \in Slots :
    AnsweredFromCache(s) =>
      /\ req[s].kind = "lookup" => req[s].from.kind # "query"
      /\ req[s].kind = "query" => req[s].from.kind = "query"

\* an override or field that queryAirtableContains validates and rejects
BadOverride(query) ==
  LET b == Prop(query, "AIRTABLE_BASE_ID")
      t == Prop(query, "AIRTABLE_TABLE")
  IN \/ Truthy(b) /\ ~IdPattern("app", ToStr(b))
     \/ Truthy(t) /\ ~(IdPattern("tbl", trim(ToStr(t))) \/ SafeNamePattern(trim(ToStr(t))))
     \/ ~SafeNamePattern(Resolved(query))

\* C10: a query with an allow-listed field whose base or table override (or
\* field) fails its pattern answers 400, without a remote call and without
\* a cache write
C10_BadOverride400 ==
  \A s \in QueryReqs :
    ( /\ Truthy(Prop(req[s].input, "q"))
      /\ Resolved(req[s].input) \in ALLOWED_FIELDS
      /\ BadOverride(req[s].input) ) =>
      /\ Done(s) /\ req[s].res.status = 400
      /\ req[s].calls = <<>> /\ req[s].sets = <<>>

\* the message texts the remote store client rejects with
RemoteErrors == {TransportError, NotFoundError, InvalidRequestError}

\* the request in slot s ended in an error response
AnsweredError(s) == Done(s) /\ req[s].res.status >= 400

\* C11: the body of every error response of lookup, ingestion and query is
\* an object whose error text is not the message of the error the remote
\* store client rejected with
C11_GenericErrorBody ==
  \A s \in Slots :
    AnsweredError(s) =>
      /\ req[s].res.body.t = "object"
      /\ DOMAIN req[s].res.body.o = {"error"}
      /\ req[s].res.body.o["error"] \notin {JStr(m) : m \in RemoteErrors}

\* the number a maxRecords parameter denotes, if any
MaxRecordsParam(query) == parseInt(Prop(query, "maxRecords"))

\* C12: every remote search is issued with a maxRecords in 1..100: 25 when
\* the parameter is absent or not a number, min(parameter, 100) when the
\* parameter is at least 1
C12_MaxRecordsClamped ==
  \A s \in QueryReqs :
    \A i \in 1..Len(req[s].calls) :
      LET n == MaxRecordsParam(req[s].input)
          sent == req[s].calls[i].maxRecords
      IN /\ sent \in 1..100
         /\ n.nan => sent = 25
         /\ (~n.nan /\ n.n >= 1) => sent = Min(n.n, 100)

\* /^[A-Za-z0-9_-]+$/: a text that cannot leave a string literal
SafeText(s) ==
  /\ Len(s) >= 1
  /\ \A i \in 1..Len(s) : IsAlnum(Char(s, i)) \/ InChars(Char(s, i), "_-")

\* C13: the code of every `{Redemption Code} = "..."` formula sent to the
\* store, by lookup or by ingestion, consists of characters of a safe
\* class, and the field of every SEARCH formula is on the allow-list
C13_FormulaInputChecked ==
  \A s \in Slots :
    \A i \in 1..Len(req[s].calls) :
      LET call == req[s].calls[i]
      IN /\ call.by = "code" => SafeText(call.arg)
         /\ call.by = "search" => call.field \in ALLOWED_FIELDS

\* the records whose field contains the text, ignoring case
Containing(field, text) ==
  LET Match(id) == /\ field \in DOMAIN table[id]
                   /\ Includes(toLowerCase(table[id][field]), toLowerCase(text))
  IN SelectSeq(RecordOrder, Match)

\* the record ids of a query's response body
BodyIds(body) == [i \in 1..Len(body.o["records"].a) |-> body.o["records"].a[i].o["id"].s]

\* C14: in every SEARCH formula sent to the store the string literal ends
\* where the query text ends and reads as the trimmed, lower-cased query
\* text, and a query answered from the store returns the records whose
\* field contains that text, up to maxRecords of them
C14_QueryTextStaysLiteral ==
  \A s \in QueryReqs :
    LET q == trim(ToStr(Prop(req[s].input, "q")))
    IN /\ \A i \in 1..Len(req[s].calls) :
            LET call == req[s].calls[i]
            IN /\ SearchLiteral(call).closed
               /\ SearchLiteral(call).text = toLowerCase(q)
               /\ SearchLiteral(call).rest = ", LOWER({" \o call.field \o "}))"
       /\ (AnsweredFromStore(s) /\ req[s].calls # <<>>) =>
            BodyIds(req[s].res.body) =
              FirstN(Containing(req[s].calls[1].field, q), req[s].calls[1].maxRecords)

\* the fetch of the lookup in slot s found the record of its code
FoundRecord(s) ==
  /\ req[s].calls # <<>> /\ req[s].pc \in {"resolved", "done"}
  /\ req[s].result.ok /\ req[s].result.records # <<>>

C15_State ==
  \A s, u \in Lookups :
    ( /\ s # u /\ LookupCode(s) = LookupCode(u)
      /\ Done(s) /\ Done(u) /\ FoundRecord(s) /\ FoundRecord(u)
      /\ req[s].result.records = req[u].result.records ) =>
      /\ req[s].res.status = 200 /\ req[u].res.status = 200
      /\ req[s].res.body = req[u].res.body

C15_Step ==
  \A s \in Lookups :
    (Answers(s) /\ FoundRecord(s)) =>
      /\ req'[s].res.status = 200
      /\ CacheGet(cache', LookupCode(s)) = req'[s].res.body

\* C15: two lookups of one code that both miss the cache and both read the
\* same, existing record answer 200 with the same body, and each of them, at
\* its answer, leaves that body as the cache entry of the code, so the entry
\* is that body whichever of the two writes last
C15_ConcurrentLookupsAgree ==
  /\ [](C15_State)
  /\ [][C15_Step]_vars

C15_Witness ==
  \E s, u \in Lookups :
    /\ s # u /\ LookupCode(s) = LookupCode(u)
    /\ AnsweredFromStore(s) /\ AnsweredFromStore(u)
    /\ req[u].joined
    /\ req[s].result.records = req[u].result.records
    /\ CacheGet(cache, LookupCode(s)) = req[u].res.body

HasCachedFlag(v) == v.t = "object" /\ "cached" \in DOMAIN v.o

\* C16: a query answered 200 carries cached: true exactly when it was
\* answered from a cache entry, a query answered after a remote call does
\* not carry the flag, and no value in the cache carries it
C16_CachedFlagIffHit ==
  /\ \A s \in QueryReqs :
       (Done(s) /\ req[s].res.status = 200) =>
         /\ HasCachedFlag(req[s].res.body) <=> req[s].res.hit
         /\ HasCachedFlag(req[s].res.body) =>
              req[s].res.body.o["cached"] = JBool(TRUE)
         /\ req[s].calls # <<>> => ~HasCachedFlag(req[s].res.body)
  /\ \A key \in DOMAIN cache : ~HasCachedFlag(cache[key].value)

C16_Witness ==
  \E s, u \in QueryReqs :
    /\ AnsweredFromStore(s) /\ Len(req[s].calls) = 1
    /\ ~HasCachedFlag(req[s].res.body)
    /\ AnsweredFromCache(u) /\ req[u].calls = <<>>
    /\ req[u].res.body = WithCached(req[s].res.body)
    /\ CacheGet(cache, req[u].cacheKey) = req[s].res.body

\* the redemption status a cache value of lookup or ingestion reports
ReportedStatus(value) ==
  IF value.t = "string" THEN value.s
  ELSE IF value.t = "object" /\ "redemptionStatus" \in DOMAIN value.o
    THEN ToStr(value.o["redemptionStatus"])
  ELSE ""

\* C17: once the store holds 'Already Redeemed' for a code and no request
\* is in flight, the cache entry of the code, if there is one, reports
\* 'Already Redeemed': no lookup has written over the entry of the
\* ingestion a status it read before the update
C17_NoStaleCacheWrite ==
  \A code \in DOMAIN cache :
    (Redeemed(code) /\ \A s \in Slots : Free(s)) =>
      ReportedStatus(cache[code].value) = "Already Redeemed"

LegacyLookups == {s \in Slots : req[s].kind = "legacy"}

\* C18: a lookup of the older handler that starts while the cache holds the
\* entry an earlier lookup of the code wrote is answered from the cache,
\* without a remote call, with the body that lookup returned, and every
\* entry the handler writes holds the record id its hit check tests
C18_LegacyEntryIsHit ==
  /\ \A s \in LegacyLookups :
       req[s].prior # {} =>
         /\ AnsweredFromCache(s)
         /\ req[s].calls = <<>>
         /\ \A body \in req[s].prior : req[s].res.body = body
  /\ \A key \in DOMAIN cache :
       cache[key].by.kind = "legacy" => LegacyHit(cache[key].value)

====
